---- MODULE Spec2Model ----
(***************************************************************************)
(* Admission, scheduling and browser-pool model of the jermacaption bot.   *)
(*                                                                         *)
(* The bot runs on one JavaScript event loop: code between two awaits is   *)
(* atomic, and the continuations of a settled promise (microtasks) run     *)
(* before any timer or I/O callback.  Every action below is one such       *)
(* macrotask: a handler from its entry (or from the await it resumes at)    *)
(* to the next await whose completion needs I/O or a timer.                *)
(***************************************************************************)
EXTENDS Integers, Sequences, FiniteSets, TLC

VARIABLES
    gifQueue,          \* const gifQueue: QueueItem[]   (job ids, head first)
    processingCount,   \* let processingCount
    jobs,              \* per submission: the interaction and its promises
    nextTimers,        \* pending setTimeout(() => processNextInQueue(), 100)
    BROWSER_POOL,      \* const BROWSER_POOL: BrowserPool
    launched,          \* number of browsers launched so far (handle ids)
    closedHandles,     \* handles on which browser.close() was called
    cleanup,           \* cleanupBrowser(): "idle" | "closing"
    now,               \* Date.now()
    userRequestTimes,  \* const userRequestTimes: Map<string, number[]>
    reqs               \* per caller: interactions in the interactionCreate handler

vars == <<gifQueue, processingCount, jobs, nextTimers, BROWSER_POOL, launched,
          closedHandles, cleanup, now, userRequestTimes, reqs>>

----------------------------------------------------------------------------
(* Program constants.                                                      *)

MAX_QUEUE_SIZE == 100
MAX_USER_REQUESTS_PER_MINUTE == 3
MAX_PROCESSING_TIME_MS == 30000
CLEANUP_INTERVAL_MS == 60000
MAX_CONCURRENT_PROCESSING == 5
USER_QUEUE_CAP == 2
WINDOW_MS == 60000
BROWSER_IDLE_TIMEOUT == 300000

(* Bounds of the model.                                                    *)

MaxJobs == 3          \* submissions reaching handleNewGIFWithGif
NumUsers == 2         \* distinct callers of the scheduler model
MaxTimeouts == 1      \* deadline timers that fire in one run
MaxFailures == 1      \* awaited operations of the render that reject
MaxCleanups == 1      \* cleanupBrowser() runs (SIGINT/SIGTERM) in one run
MaxReqs == 5          \* interactions seen by the rate limiter in one run
MaxTicks == 3         \* clock steps of the rate limiter's runs
MaxIdleJobs == 2      \* submissions in the runs with idle eviction
MaxProgress == 1      \* renders that get past their first await (SpecDispatch)

Jobs == 1..MaxJobs
(* Submissions made before the first state of a run that starts under     *)
(* load, whose renders never resolve: as many as the concurrency cap in    *)
(* SpecAdmit, one fewer in the loaded start of Spec.                       *)
HungJobs == (MaxJobs + 1)..(MaxJobs + MAX_CONCURRENT_PROCESSING)
LoadJobs == (MaxJobs + 1)..(MaxJobs + MAX_CONCURRENT_PROCESSING - 1)
AllJobs == Jobs \cup HungJobs
Users == 1..NumUsers

----------------------------------------------------------------------------
(* The state as one record, so that a handler that calls other functions   *)
(* synchronously is the composition of their effects.                      *)

Cur ==
    [gifQueue |-> gifQueue, processingCount |-> processingCount, jobs |-> jobs,
     nextTimers |-> nextTimers, BROWSER_POOL |-> BROWSER_POOL,
     launched |-> launched, closedHandles |-> closedHandles, now |-> now]

Becomes(r) ==
    /\ gifQueue' = r.gifQueue
    /\ processingCount' = r.processingCount
    /\ jobs' = r.jobs
    /\ nextTimers' = r.nextTimers
    /\ BROWSER_POOL' = r.BROWSER_POOL
    /\ launched' = r.launched
    /\ closedHandles' = r.closedHandles
    /\ now' = r.now

(* A job that has not been submitted yet.                                  *)
NoJob ==
    [admitUser |-> 0, phase |-> "new", via |-> "none",
     posReply |-> FALSE, rpc |-> "none", timer |-> 0, startedAt |-> 0,
     timedOut |-> FALSE, failed |-> FALSE, acqNow |-> 0, page |-> 0,
     acquired |-> 0, released |-> 0, position |-> 0, notes |-> <<>>]

----------------------------------------------------------------------------
(* Queue predicates.                                                       *)

RECURSIVE CountUser(_, _)
CountUser(q, userId) ==
    IF q = <<>> THEN 0
    ELSE (IF Head(q).userId = userId THEN 1 ELSE 0) + CountUser(Tail(q), userId)

RECURSIVE FindIndex(_, _, _)
FindIndex(q, userId, i) ==
    IF i > Len(q) THEN -1
    ELSE IF q[i].userId = userId THEN i - 1
    ELSE FindIndex(q, userId, i + 1)

getQueuePosition_ZeroBased(q, userId) == FindIndex(q, userId, 1)

getQueuePosition(q, userId) == FindIndex(q, userId, 1) + 1

getUserQueueCount_HeadOnly(q, userId) ==
    IF q # <<>> /\ Head(q).userId = userId THEN 1 ELSE 0

getUserQueueCount(q, userId) == CountUser(q, userId)

isQueueFull_OffByOne(q) == Len(q) > MAX_QUEUE_SIZE

isQueueFull(q) == Len(q) >= MAX_QUEUE_SIZE

canProcessMore_OffByOne(count) == count <= MAX_CONCURRENT_PROCESSING

canProcessMore(count) == count < MAX_CONCURRENT_PROCESSING

(* addToQueue: the queue after the call; unchanged when it returns false.  *)
addToQueue(q, item) ==
    IF isQueueFull(q) THEN q
    ELSE IF getUserQueueCount(q, item.userId) >= USER_QUEUE_CAP THEN q
    ELSE Append(q, item)

addToQueueResult(q, item) ==
    IF isQueueFull(q) THEN FALSE
    ELSE IF getUserQueueCount(q, item.userId) >= USER_QUEUE_CAP THEN FALSE
    ELSE TRUE

----------------------------------------------------------------------------
(* The browser pool.                                                       *)

releaseBrowserPage(r, j) ==
    [r EXCEPT !.BROWSER_POOL.inUse = FALSE,
              !.BROWSER_POOL.lastUsed = r.now,
              !.jobs[j].released = @ + 1,
              !.jobs[j].page = 0]

----------------------------------------------------------------------------
(* The deadline wrapper and the scheduler.                                 *)

(* reject(...) of processGifWithTimeout's promise.  A settled promise      *)
(* ignores it; otherwise the awaiting caller enters its catch block and    *)
(* awaits editReply with the failure message.                              *)
wrapperReject(r, j) ==
    [r EXCEPT !.jobs[j].phase = IF @ = "waiting" THEN "errReply" ELSE @]

(* generateImage .. processGif reject: processGifWithTimeout's catch       *)
(* clears the timer and rejects.                                           *)
processGifRejects(r, j) ==
    wrapperReject([r EXCEPT !.jobs[j].rpc = "rejected",
                            !.jobs[j].timer = 0], j)

(* Variant: the deadline is armed with the cleanup interval's delay.       *)
processGifWithTimeout_WrongDelay(r, j, textOk) ==
    LET armed == [r EXCEPT !.jobs[j].timer = r.now + CLEANUP_INTERVAL_MS,
                           !.jobs[j].startedAt = r.now]
    IN  IF textOk
        THEN [armed EXCEPT !.jobs[j].rpc = "prep"]
        ELSE [armed EXCEPT !.jobs[j].rpc = "rejected", !.jobs[j].timer = 0,
                           !.jobs[j].phase = "errReply"]

(* processGifWithTimeout(item) up to its first await: arm the deadline,    *)
(* call processGif -> generateImage, which rejects at once on empty text.  *)
processGifWithTimeout(r, j, textOk) ==
    LET armed == [r EXCEPT !.jobs[j].timer = r.now + MAX_PROCESSING_TIME_MS,
                           !.jobs[j].startedAt = r.now]
    IN  IF textOk
        THEN [armed EXCEPT !.jobs[j].rpc = "prep"]
        ELSE processGifRejects(armed, j)

(* Variant: the scheduler takes the newest item (pop instead of shift).    *)
processNextInQueue_TakesLast(r) ==
    IF Len(r.gifQueue) = 0 \/ ~canProcessMore(r.processingCount) THEN r
    ELSE LET item == r.gifQueue[Len(r.gifQueue)]
         IN  processGifWithTimeout(
                 [r EXCEPT !.gifQueue = SubSeq(@, 1, Len(@) - 1),
                           !.processingCount = @ + 1,
                           !.jobs[item.id].phase = "waiting",
                           !.jobs[item.id].via = "queue"], item.id, item.textOk)

(* processNextInQueue() up to its first await.                             *)
processNextInQueue(r) ==
    IF Len(r.gifQueue) = 0 \/ ~canProcessMore(r.processingCount) THEN r
    ELSE LET item == Head(r.gifQueue)
         IN  processGifWithTimeout(
                 [r EXCEPT !.gifQueue = Tail(@),
                           !.processingCount = @ + 1,
                           !.jobs[item.id].phase = "waiting",
                           !.jobs[item.id].via = "queue"], item.id, item.textOk)

(* Variant: a job that ended with the failure message is put back at the   *)
(* tail of the queue.                                                      *)
finallyBlock_Retries(r, j) ==
    LET dec == [r EXCEPT !.processingCount = @ - 1, !.jobs[j].phase = "done"]
        again == IF r.jobs[j].notes # <<>>
                    /\ r.jobs[j].notes[Len(r.jobs[j].notes)] = "failure"
                 THEN [dec EXCEPT !.jobs[j].phase = "queued",
                                  !.gifQueue = Append(@,
                                      [id |-> j, userId |-> r.jobs[j].admitUser,
                                       textOk |-> TRUE])]
                 ELSE dec
    IN  IF r.jobs[j].via = "fast"
        THEN processNextInQueue(again)
        ELSE [again EXCEPT !.nextTimers = @ + 1]

(* Variant: the finally block gives the slot back without another          *)
(* dispatch attempt.                                                       *)
finallyBlock_NoNext(r, j) ==
    [r EXCEPT !.processingCount = @ - 1, !.jobs[j].phase = "done"]

(* The finally block of the caller that awaited processGifWithTimeout.     *)
finallyBlock(r, j) ==
    LET dec == [r EXCEPT !.processingCount = @ - 1, !.jobs[j].phase = "done"]
    IN  IF r.jobs[j].via = "fast"
        THEN processNextInQueue(dec)
        ELSE [dec EXCEPT !.nextTimers = @ + 1]

(* Variant: the caller's finally runs again when a render resolves after   *)
(* its deadline.                                                           *)
processGifResolves_AlwaysFinally(r, j) ==
    finallyBlock([r EXCEPT !.jobs[j].rpc = "resolved", !.jobs[j].timer = 0], j)

(* processGif resolves: clearTimeout, resolve(); an unsettled wrapper lets *)
(* its caller fall through to finally.                                     *)
processGifResolves(r, j) ==
    LET res == [r EXCEPT !.jobs[j].rpc = "resolved", !.jobs[j].timer = 0]
    IN  IF r.jobs[j].phase = "waiting" THEN finallyBlock(res, j) ELSE res

----------------------------------------------------------------------------
(* getBrowserPage() up to its first await, called by job j.                *)
getBrowserPage(r, j) ==
    LET pool == r.BROWSER_POOL
    IN  IF pool.browser # 0 /\ pool.page # 0 /\ ~pool.inUse
        THEN [r EXCEPT !.BROWSER_POOL.inUse = TRUE,
                       !.BROWSER_POOL.lastUsed = r.now,
                       !.jobs[j].page = pool.page,
                       !.jobs[j].acquired = @ + 1,
                       !.jobs[j].rpc = "render"]
        ELSE IF pool.browser # 0 /\ pool.inUse
        THEN \* throw new Error('Browser is currently in use'): generateImage's
             \* catch rethrows and its finally releases the page
             processGifRejects(releaseBrowserPage(r, j), j)
        ELSE [r EXCEPT !.closedHandles =
                           IF pool.browser # 0 THEN @ \cup {pool.browser} ELSE @,
                       !.jobs[j].acqNow = r.now,
                       !.jobs[j].rpc = "init"]

(* getBrowserPage() after initializeBrowser / newPage / setDefault*.       *)
getBrowserPageInitialized(r, j) ==
    LET h == r.launched + 1
    IN  [r EXCEPT !.launched = h,
                  !.BROWSER_POOL.browser = h,
                  !.BROWSER_POOL.page = h,
                  !.BROWSER_POOL.inUse = TRUE,
                  !.BROWSER_POOL.lastUsed = r.jobs[j].acqNow,
                  !.jobs[j].page = h,
                  !.jobs[j].acqNow = 0,
                  !.jobs[j].acquired = @ + 1,
                  !.jobs[j].rpc = "render"]

(* generateImage: an awaited step inside its try block rejects.            *)
generateImageFails(r, j) ==
    processGifRejects(releaseBrowserPage(
        [r EXCEPT !.jobs[j].failed = TRUE, !.jobs[j].acqNow = 0], j), j)

(* generateImage returns outputPath; finally releases; processGif goes on  *)
(* to await generateGIF.                                                   *)
generateImageReturns(r, j) ==
    [releaseBrowserPage(r, j) EXCEPT !.jobs[j].rpc = "gif"]

----------------------------------------------------------------------------
(* Actions of the scheduler.                                               *)

NextJob == CHOOSE j \in Jobs : jobs[j].phase = "new" /\
                               \A k \in Jobs : jobs[k].phase = "new" => j <= k

NumTimedOut == Cardinality({j \in AllJobs : jobs[j].timedOut})
NumFailed == Cardinality({j \in Jobs : jobs[j].failed})

(* Variant: the per-caller count decides the message.                     *)
rejectionReason_UserFirst(q, item) ==
    IF getUserQueueCount(q, item.userId) >= USER_QUEUE_CAP
    THEN "UserLimitExceeded" ELSE "QueueFull"

(* The reason handleNewGIFWithGif reports when addToQueue returned false.  *)
rejectionReason(q, item) ==
    IF isQueueFull(q) THEN "QueueFull" ELSE "UserLimitExceeded"

(* Variant: the immediate path is taken whenever a slot is free, whether   *)
(* or not jobs are queued.                                                 *)
handleNewGIFWithGif_IgnoresQueue(j, userId, textOk) ==
    /\ jobs[j].phase = "new"
    /\ LET item == [id |-> j, userId |-> userId, textOk |-> textOk]
           r0 == Cur
           \* item.userId, as addToQueue(queueItem) is given it
           r1 == [Cur EXCEPT !.jobs[j].admitUser = userId]
       IN  IF canProcessMore(processingCount)
           THEN Becomes(processGifWithTimeout(
                    [r0 EXCEPT !.processingCount = @ + 1,
                               !.jobs[j].phase = "waiting",
                               !.jobs[j].via = "fast"], j, textOk))
           ELSE LET added == addToQueueResult(gifQueue, item)
                    q2 == addToQueue(gifQueue, item)
                IN  IF ~added
                    THEN Becomes([r1 EXCEPT
                             !.jobs[j].phase = "rejected",
                             !.jobs[j].notes = Append(@, rejectionReason(q2, item))])
                    ELSE Becomes([r1 EXCEPT
                             !.gifQueue = q2,
                             !.jobs[j].phase = "queued",
                             !.jobs[j].posReply = TRUE,
                             !.jobs[j].position = getQueuePosition(q2, userId)])
    /\ UNCHANGED <<cleanup, userRequestTimes, reqs>>

(* handleNewGIFWithGif(interaction, text, gif) up to its first await.      *)
handleNewGIFWithGif(j, userId, textOk) ==
    /\ jobs[j].phase = "new"
    /\ LET item == [id |-> j, userId |-> userId, textOk |-> textOk]
           r0 == Cur
           \* item.userId, as addToQueue(queueItem) is given it
           r1 == [Cur EXCEPT !.jobs[j].admitUser = userId]
       IN  IF canProcessMore(processingCount) /\ Len(gifQueue) = 0
           THEN Becomes(processGifWithTimeout(
                    [r0 EXCEPT !.processingCount = @ + 1,
                               !.jobs[j].phase = "waiting",
                               !.jobs[j].via = "fast"], j, textOk))
           ELSE LET added == addToQueueResult(gifQueue, item)
                    q2 == addToQueue(gifQueue, item)
                IN  IF ~added
                    THEN Becomes([r1 EXCEPT
                             !.jobs[j].phase = "rejected",
                             !.jobs[j].notes = Append(@, rejectionReason(q2, item))])
                    ELSE Becomes([r1 EXCEPT
                             !.gifQueue = q2,
                             !.jobs[j].phase = "queued",
                             !.jobs[j].posReply = TRUE,
                             !.jobs[j].position = getQueuePosition(q2, userId)])
    /\ UNCHANGED <<cleanup, userRequestTimes, reqs>>

Submit ==
    \E userId \in Users, textOk \in BOOLEAN :
        /\ \E j \in Jobs : jobs[j].phase = "new"
        /\ handleNewGIFWithGif(NextJob, userId, textOk)

(* editReply with the queue position returned: processNextInQueue().       *)
PositionReplied(j) ==
    /\ jobs[j].posReply
    /\ Becomes(processNextInQueue([Cur EXCEPT !.jobs[j].posReply = FALSE]))
    /\ UNCHANGED <<cleanup, userRequestTimes, reqs>>

(* setTimeout(() => processNextInQueue(), 100) fires.                      *)
NextTimerFires ==
    /\ nextTimers > 0
    /\ Becomes(processNextInQueue([Cur EXCEPT !.nextTimers = @ - 1]))
    /\ UNCHANGED <<cleanup, userRequestTimes, reqs>>

(* The deadline timer of processGifWithTimeout fires.  Timers fire in      *)
(* deadline order and the clock is at the deadline when one fires.         *)
DeadlineFires(j) ==
    /\ jobs[j].timer # 0
    /\ \A k \in AllJobs : jobs[k].timer # 0 => jobs[k].timer >= jobs[j].timer
    /\ Becomes(wrapperReject(
           [Cur EXCEPT !.now = IF jobs[j].timer > @ THEN jobs[j].timer ELSE @,
                       !.jobs[j].timer = 0,
                       !.jobs[j].timedOut = TRUE], j))
    /\ UNCHANGED <<cleanup, userRequestTimes, reqs>>

(* The failure editReply of the catch block returned; finally runs.        *)
ErrorReplied(j) ==
    /\ jobs[j].phase = "errReply"
    /\ Becomes(finallyBlock([Cur EXCEPT !.jobs[j].notes = Append(@, "failure")], j))
    /\ UNCHANGED <<cleanup, userRequestTimes, reqs>>

----------------------------------------------------------------------------
(* Actions of the render: processGif -> generateImage -> generateGIF ->    *)
(* editReply, each from one await to the next.                             *)

(* ensureDirectoryExists / generateHtml returned: getBrowserPage().        *)
AcquirePage(j) ==
    /\ jobs[j].rpc = "prep"
    /\ Becomes(getBrowserPage(Cur, j))
    /\ UNCHANGED <<cleanup, userRequestTimes, reqs>>

(* ensureDirectoryExists / generateHtml rejected.                          *)
PrepareFails(j) ==
    /\ jobs[j].rpc = "prep"
    /\ NumFailed < MaxFailures
    /\ Becomes(generateImageFails(Cur, j))
    /\ UNCHANGED <<cleanup, userRequestTimes, reqs>>

(* puppeteer.launch / newPage returned.                                    *)
BrowserLaunched(j) ==
    /\ jobs[j].rpc = "init"
    /\ Becomes(getBrowserPageInitialized(Cur, j))
    /\ UNCHANGED <<cleanup, userRequestTimes, reqs>>

(* puppeteer.launch / newPage rejected.                                    *)
BrowserLaunchFails(j) ==
    /\ jobs[j].rpc = "init"
    /\ NumFailed < MaxFailures
    /\ Becomes(generateImageFails(Cur, j))
    /\ UNCHANGED <<cleanup, userRequestTimes, reqs>>

(* setContent .. screenshot returned.                                      *)
ScreenshotDone(j) ==
    /\ jobs[j].rpc = "render"
    /\ Becomes(generateImageReturns(Cur, j))
    /\ UNCHANGED <<cleanup, userRequestTimes, reqs>>

(* setContent .. screenshot rejected.                                      *)
ScreenshotFails(j) ==
    /\ jobs[j].rpc = "render"
    /\ NumFailed < MaxFailures
    /\ Becomes(generateImageFails(Cur, j))
    /\ UNCHANGED <<cleanup, userRequestTimes, reqs>>

(* generateGIF returned: editReply({files}) is called.                     *)
GifDone(j) ==
    /\ jobs[j].rpc = "gif"
    /\ jobs' = [jobs EXCEPT ![j].rpc = "reply"]
    /\ UNCHANGED <<gifQueue, processingCount, nextTimers, BROWSER_POOL, launched,
                   closedHandles, cleanup, now, userRequestTimes, reqs>>

(* generateGIF rejected.                                                   *)
GifFails(j) ==
    /\ jobs[j].rpc = "gif"
    /\ NumFailed < MaxFailures
    /\ Becomes(processGifRejects([Cur EXCEPT !.jobs[j].failed = TRUE], j))
    /\ UNCHANGED <<cleanup, userRequestTimes, reqs>>

(* editReply({files}) returned: the caller has the GIF; processGif         *)
(* resolves.                                                               *)
SuccessReplied(j) ==
    /\ jobs[j].rpc = "reply"
    /\ Becomes(processGifResolves(
           [Cur EXCEPT !.jobs[j].notes = Append(@, "success")], j))
    /\ UNCHANGED <<cleanup, userRequestTimes, reqs>>

----------------------------------------------------------------------------
(* cleanupBrowser(), as the SIGINT / SIGTERM handler: the handler replaces *)
(* the default action of the signal, so the process keeps running.         *)

CleanupStart ==
    /\ cleanup = "idle"
    /\ Cardinality(closedHandles) < MaxCleanups
    /\ BROWSER_POOL.browser # 0 /\ ~BROWSER_POOL.inUse
    /\ cleanup' = "closing"
    /\ closedHandles' = closedHandles \cup {BROWSER_POOL.browser}
    /\ UNCHANGED <<gifQueue, processingCount, jobs, nextTimers, BROWSER_POOL,
                   launched, now, userRequestTimes, reqs>>

CleanupDone ==
    /\ cleanup = "closing"
    /\ cleanup' = "idle"
    /\ BROWSER_POOL' = [BROWSER_POOL EXCEPT !.browser = 0, !.page = 0]
    /\ UNCHANGED <<gifQueue, processingCount, jobs, nextTimers, launched,
                   closedHandles, now, userRequestTimes, reqs>>

----------------------------------------------------------------------------
(* The state after construction.                                           *)
InitFresh ==
    /\ gifQueue = <<>>
    /\ processingCount = 0
    /\ jobs = [j \in AllJobs |-> NoJob]
    /\ nextTimers = 0
    /\ BROWSER_POOL = [browser |-> 0, page |-> 0, inUse |-> FALSE, lastUsed |-> 0]
    /\ launched = 0
    /\ closedHandles = {}
    /\ cleanup = "idle"
    /\ now = 0
    /\ userRequestTimes = [u \in Users |-> <<>>]
    /\ reqs = [u \in Users |-> <<>>]

(* The scheduler under load: MAX_CONCURRENT_PROCESSING - 1 submissions     *)
(* took the fast path at time 0 and their renders are still awaiting       *)
(* ensureDirectoryExists / generateHtml, which never return.               *)
HungJob ==
    [NoJob EXCEPT !.phase = "waiting", !.via = "fast", !.rpc = "prep",
                  !.timer = MAX_PROCESSING_TIME_MS, !.startedAt = 0]

InitLoad ==
    /\ gifQueue = <<>>
    /\ processingCount = Cardinality(LoadJobs)
    /\ jobs = [j \in AllJobs |-> IF j \in LoadJobs THEN HungJob ELSE NoJob]
    /\ nextTimers = 0
    /\ BROWSER_POOL = [browser |-> 0, page |-> 0, inUse |-> FALSE, lastUsed |-> 0]
    /\ launched = 0
    /\ closedHandles = {}
    /\ cleanup = "idle"
    /\ now = 0
    /\ userRequestTimes = [u \in Users |-> <<>>]
    /\ reqs = [u \in Users |-> <<>>]

(* A run starts after construction, or in the loaded state, which MaxJobs  *)
(* submissions cannot reach from construction.                             *)
Init == InitFresh \/ InitLoad

Next ==
    \/ Submit
    \/ \E j \in Jobs : PositionReplied(j)
    \/ NextTimerFires
    \/ \E j \in AllJobs : NumTimedOut < MaxTimeouts /\ DeadlineFires(j)
    \/ \E j \in AllJobs : ErrorReplied(j)
    \/ \E j \in Jobs : AcquirePage(j)
    \/ \E j \in Jobs : PrepareFails(j)
    \/ \E j \in Jobs : BrowserLaunched(j)
    \/ \E j \in Jobs : BrowserLaunchFails(j)
    \/ \E j \in Jobs : ScreenshotDone(j)
    \/ \E j \in Jobs : ScreenshotFails(j)
    \/ \E j \in Jobs : GifDone(j)
    \/ \E j \in Jobs : GifFails(j)
    \/ \E j \in Jobs : SuccessReplied(j)

Spec == Init /\ [][Next]_vars

(* The same with cleanupBrowser() running beside the jobs.                 *)
NextCleanup ==
    \/ Next
    \/ CleanupStart
    \/ CleanupDone

SpecCleanup == InitFresh /\ [][NextCleanup]_vars


----------------------------------------------------------------------------
(* The rate limiter.  userRequestTimes is written by recordRequest and the *)
(* cleanup interval only and read by isRateLimited only, and none of them  *)
(* reads the scheduler's state: SpecRate follows an interaction from the   *)
(* interactionCreate handler to the call of handleNewGIFWithGif, where     *)
(* Spec takes over.                                                        *)

recentRequests_Inclusive(userTimes, oneMinuteAgo) ==
    SelectSeq(userTimes, LAMBDA time : time >= oneMinuteAgo)

recentRequests(userTimes, oneMinuteAgo) ==
    SelectSeq(userTimes, LAMBDA time : time > oneMinuteAgo)

isRateLimited(userTimes, t) ==
    Len(recentRequests(userTimes, t - WINDOW_MS)) >= MAX_USER_REQUESTS_PER_MINUTE

recordRequest(times, userId, t) ==
    [times EXCEPT ![userId] = Append(@, t)]

(* Clock steps, in ms.                                                     *)
TickSteps == {WINDOW_MS \div 2}
MaxTime == MaxTicks * (WINDOW_MS \div 2)

RECURSIVE SumLen(_, _)
SumLen(f, S) ==
    IF S = {} THEN 0
    ELSE LET u == CHOOSE x \in S : TRUE IN Len(f[u]) + SumLen(f, S \ {u})

NumReqs == SumLen(reqs, Users)

(* interactionCreate, for a command of a caller who is not banned, up to   *)
(* await interaction.deferReply().                                         *)
interactionCreate(userId) ==
    /\ NumReqs < MaxReqs
    /\ reqs' = [reqs EXCEPT ![userId] = Append(@,
           [at |-> now,
            pc |-> IF isRateLimited(userRequestTimes[userId], now)
                   THEN "RateLimited" ELSE "deferReply"])]
    /\ UNCHANGED <<gifQueue, processingCount, jobs, nextTimers, BROWSER_POOL,
                   launched, closedHandles, cleanup, now, userRequestTimes>>

(* deferReply returned: handleNewGIF records the request and calls         *)
(* handleNewGIFWithGif.                                                    *)
handleNewGIF(userId, i) ==
    /\ i <= Len(reqs[userId])
    /\ reqs[userId][i].pc = "deferReply"
    /\ userRequestTimes' = recordRequest(userRequestTimes, userId, now)
    /\ reqs' = [reqs EXCEPT ![userId][i].pc = "handleNewGIFWithGif"]
    /\ UNCHANGED <<gifQueue, processingCount, jobs, nextTimers, BROWSER_POOL,
                   launched, closedHandles, cleanup, now>>

(* The cleanup interval: every CLEANUP_INTERVAL_MS.                        *)
CleanupRequestTimes ==
    /\ now > 0 /\ now % CLEANUP_INTERVAL_MS = 0
    /\ userRequestTimes' =
           [u \in Users |-> recentRequests(userRequestTimes[u], now - 60000)]
    /\ userRequestTimes' # userRequestTimes
    /\ UNCHANGED <<gifQueue, processingCount, jobs, nextTimers, BROWSER_POOL,
                   launched, closedHandles, cleanup, now, reqs>>

Tick(d) ==
    /\ now + d <= MaxTime
    /\ now' = now + d
    /\ UNCHANGED <<gifQueue, processingCount, jobs, nextTimers, BROWSER_POOL,
                   launched, closedHandles, cleanup, userRequestTimes, reqs>>

NextRate ==
    \/ \E userId \in Users : interactionCreate(userId)
    \/ \E userId \in Users, i \in 1..MaxReqs : handleNewGIF(userId, i)
    \/ CleanupRequestTimes
    \/ \E d \in TickSteps : Tick(d)

SpecRate == InitFresh /\ [][NextRate]_vars

----------------------------------------------------------------------------
(* Admission at the queue's capacity.  Callers other than Users queued two *)
(* jobs each while MAX_CONCURRENT_PROCESSING renders hang; the run is the  *)
(* submissions that follow.  Nothing completes, so nothing is dispatched.  *)

OtherItem(i) == [id |-> 0, userId |-> NumUsers + ((i + 1) \div 2), textOk |-> TRUE]

Prefilled(n) == [i \in 1..n |-> OtherItem(i)]

InitAdmit ==
    /\ \E n \in (MAX_QUEUE_SIZE - 3)..(MAX_QUEUE_SIZE - 1) : gifQueue = Prefilled(n)
    /\ processingCount = Cardinality(HungJobs)
    /\ jobs = [j \in AllJobs |-> IF j \in HungJobs THEN HungJob ELSE NoJob]
    /\ nextTimers = 0
    /\ BROWSER_POOL = [browser |-> 0, page |-> 0, inUse |-> FALSE, lastUsed |-> 0]
    /\ launched = 0
    /\ closedHandles = {}
    /\ cleanup = "idle"
    /\ now = 0
    /\ userRequestTimes = [u \in Users |-> <<>>]
    /\ reqs = [u \in Users |-> <<>>]

NextAdmit ==
    \/ Submit
    \/ \E j \in Jobs : PositionReplied(j)

SpecAdmit == InitAdmit /\ [][NextAdmit]_vars

(* Renders that never resolve: callers submit captions with text while    *)
(* four earlier jobs occupy slots, and no step of generateImage or         *)
(* createGif ever returns.                                                 *)
SubmitHang ==
    \E userId \in Users :
        /\ \E j \in Jobs : jobs[j].phase = "new"
        /\ handleNewGIFWithGif(NextJob, userId, TRUE)

NextHang ==
    \/ SubmitHang
    \/ \E j \in Jobs : PositionReplied(j)
    \/ NextTimerFires
    \/ \E j \in AllJobs : DeadlineFires(j)
    \/ \E j \in AllJobs : ErrorReplied(j)

(* The Node event loop runs every expired setTimeout callback, and the     *)
(* failure editReply returns, so both are taken once they stay enabled.    *)
FairHang ==
    \A j \in AllJobs : WF_vars(DeadlineFires(j)) /\ WF_vars(ErrorReplied(j))

SpecHang == InitLoad /\ [][NextHang]_vars /\ FairHang

----------------------------------------------------------------------------
(* Idle eviction.  Here the clock moves by itself: a step of the clock     *)
(* never passes an armed deadline, nor an instant of the 60 s interval at  *)
(* which the interval's callback would call cleanupBrowser(); when it      *)
(* arrives at such an instant the callback runs, up to its                 *)
(* await browser.close().                                                  *)

IDLE_SWEEP_MS == 60000

(* The instants the clock visits: a deadline after the start, the idle     *)
(* timeout after the start, a deadline later, and the interval's first     *)
(* instant past the idle timeout.                                          *)
ClockInstants ==
    {MAX_PROCESSING_TIME_MS,
     BROWSER_IDLE_TIMEOUT,
     BROWSER_IDLE_TIMEOUT + MAX_PROCESSING_TIME_MS,
     BROWSER_IDLE_TIMEOUT + IDLE_SWEEP_MS}
MaxClock == BROWSER_IDLE_TIMEOUT + IDLE_SWEEP_MS

(* The condition of the interval's callback, evaluated at instant t.       *)
SweepDue(pool, t) ==
    /\ pool.browser # 0
    /\ ~pool.inUse
    /\ t - pool.lastUsed > BROWSER_IDLE_TIMEOUT

SweepInstant(t) == t > 0 /\ t % IDLE_SWEEP_MS = 0

(* A caller submits a caption with text; at most MaxIdleJobs do.           *)
SubmitIdle ==
    /\ \E j \in 1..MaxIdleJobs : jobs[j].phase = "new"
    /\ SubmitHang

IdleTick(t) ==
    /\ now < t
    /\ \A k \in AllJobs : jobs[k].timer # 0 => jobs[k].timer >= t
    /\ \A k \in 1..(MaxClock \div IDLE_SWEEP_MS) :
           (now < k * IDLE_SWEEP_MS /\ k * IDLE_SWEEP_MS < t)
               => ~SweepDue(BROWSER_POOL, k * IDLE_SWEEP_MS)
    /\ now' = t
    /\ IF /\ SweepInstant(t)
          /\ SweepDue(BROWSER_POOL, t)
          /\ cleanup = "idle"
       THEN /\ cleanup' = "closing"
            /\ closedHandles' = closedHandles \cup {BROWSER_POOL.browser}
       ELSE UNCHANGED <<cleanup, closedHandles>>
    /\ UNCHANGED <<gifQueue, processingCount, jobs, nextTimers, BROWSER_POOL,
                   launched, userRequestTimes, reqs>>

NextIdle ==
    \/ SubmitIdle
    \/ \E j \in Jobs : jobs[j].timer = now /\ DeadlineFires(j)
    \/ \E j \in Jobs : ErrorReplied(j)
    \/ \E j \in Jobs : AcquirePage(j)
    \/ \E j \in Jobs : BrowserLaunched(j)
    \/ \E j \in Jobs : ScreenshotDone(j)
    \/ \E j \in Jobs : GifDone(j)
    \/ \E j \in Jobs : SuccessReplied(j)
    \/ \E t \in ClockInstants : IdleTick(t)
    \/ CleanupDone

SpecIdle == InitFresh /\ [][NextIdle]_vars

----------------------------------------------------------------------------
(* The dispatch loop.  Four earlier renders hang; callers submit captions; *)
(* a render may hang, fail at its first await, or run to the end, and      *)
(* every armed deadline may fire.  Timers fire and the position and        *)
(* failure replies return; no render is assumed to make progress.          *)

Progressed ==
    {j \in Jobs : jobs[j].rpc \in {"init", "render", "gif", "reply", "resolved"}}

NextDispatch ==
    \/ SubmitIdle
    \/ \E j \in Jobs : PositionReplied(j)
    \/ NextTimerFires
    \/ \E j \in AllJobs : DeadlineFires(j)
    \/ \E j \in AllJobs : ErrorReplied(j)
    \/ \E j \in Jobs : PrepareFails(j)
    \/ \E j \in Jobs : Cardinality(Progressed) < MaxProgress /\ AcquirePage(j)
    \/ \E j \in Jobs : BrowserLaunched(j)
    \/ \E j \in Jobs : ScreenshotDone(j)
    \/ \E j \in Jobs : GifDone(j)
    \/ \E j \in Jobs : SuccessReplied(j)

FairDispatch ==
    /\ WF_vars(NextTimerFires)
    /\ \A j \in Jobs : WF_vars(PositionReplied(j))
    /\ \A j \in AllJobs : WF_vars(DeadlineFires(j)) /\ WF_vars(ErrorReplied(j))

SpecDispatch == InitLoad /\ [][NextDispatch]_vars /\ FairDispatch

----------------------------------------------------------------------------
(* Start order.  All MAX_CONCURRENT_PROCESSING slots are taken by renders  *)
(* that were started from the queue at time 0 and hang, so that the first  *)
(* completion leaves a free slot and a pending 100 ms timer while callers  *)
(* are still submitting.                                                   *)

QueuedHungJob == [HungJob EXCEPT !.via = "queue"]

InitOrder ==
    /\ gifQueue = <<>>
    /\ processingCount = Cardinality(HungJobs)
    /\ jobs = [j \in AllJobs |-> IF j \in HungJobs THEN QueuedHungJob ELSE NoJob]
    /\ nextTimers = 0
    /\ BROWSER_POOL = [browser |-> 0, page |-> 0, inUse |-> FALSE, lastUsed |-> 0]
    /\ launched = 0
    /\ closedHandles = {}
    /\ cleanup = "idle"
    /\ now = 0
    /\ userRequestTimes = [u \in Users |-> <<>>]
    /\ reqs = [u \in Users |-> <<>>]

SpecOrder == InitOrder /\ [][Next]_vars

----------------------------------------------------------------------------
(* Properties.                                                             *)

(* Jobs between a successful getBrowserPage() and their own release.       *)
Holders == {j \in Jobs : jobs[j].page # 0}
(* Jobs awaiting the launch of a browser inside getBrowserPage().          *)
Initialising == {j \in Jobs : jobs[j].rpc = "init"}
(* Job j leaves the first state by a submission.                           *)
SubmittedJob(j) == jobs[j].phase = "new" /\ jobs'[j].phase # "new"
(* Job j calls getBrowserPage() in this step.                              *)
CallsGetBrowserPage(j) ==
    jobs[j].rpc = "prep" /\ jobs'[j].rpc # "prep" /\ ~jobs'[j].failed

(* C1: at most one job holds the pool's page at any time, and no second    *)
(* handle is being created while one is held or being created.             *)
C1_SingleHolder == Cardinality(Holders \cup Initialising) <= 1

(* C2: 0 <= processingCount <= MAX_CONCURRENT_PROCESSING in every state.   *)
C2_ProcessingCountBounded ==
    0 <= processingCount /\ processingCount <= MAX_CONCURRENT_PROCESSING

(* C2 witness: the cap is reached by a dispatch from the queue that        *)
(* followed a timeout, while another job is still queued.                  *)
C2_Witness ==
    /\ processingCount = MAX_CONCURRENT_PROCESSING
    /\ Len(gifQueue) > 0
    /\ \E j \in Jobs : jobs[j].via = "queue" /\ jobs[j].phase = "waiting"
    /\ \E k \in AllJobs : jobs[k].timedOut /\ jobs[k].phase = "done"

(* C3: the queue never holds more than MAX_QUEUE_SIZE jobs, and a          *)
(* submission that finds MAX_QUEUE_SIZE jobs queued is rejected with       *)
(* QueueFull and leaves the queue unchanged.                               *)
C3_QueueBounded ==
    /\ [](Len(gifQueue) <= MAX_QUEUE_SIZE)
    /\ [][\A j \in Jobs :
            (SubmittedJob(j) /\ Len(gifQueue) >= MAX_QUEUE_SIZE)
            => /\ gifQueue' = gifQueue
               /\ jobs'[j].phase = "rejected"
               /\ jobs'[j].notes = <<"QueueFull">>]_vars

C3_Witness ==
    /\ Len(gifQueue) = MAX_QUEUE_SIZE
    /\ \E j \in Jobs : jobs[j].notes = <<"QueueFull">>

(* Every caller with a job in the queue.                                   *)
QueuedUsers == {gifQueue[i].userId : i \in DOMAIN gifQueue}

(* Number of queue positions occupied by caller u.                         *)
QueuedCount(u) == Cardinality({i \in DOMAIN gifQueue : gifQueue[i].userId = u})

(* C4 as stated: no caller has more than USER_QUEUE_CAP jobs queued, and a *)
(* submission by a caller with USER_QUEUE_CAP jobs queued is rejected with *)
(* UserLimitExceeded and leaves the queue unchanged.                       *)
C4_Original ==
    /\ [](\A u \in QueuedUsers : QueuedCount(u) <= USER_QUEUE_CAP)
    /\ [][\A j \in Jobs :
            (/\ SubmittedJob(j)
             /\ jobs'[j].admitUser # 0
             /\ QueuedCount(jobs'[j].admitUser) >= USER_QUEUE_CAP)
            => /\ gifQueue' = gifQueue
               /\ jobs'[j].phase = "rejected"
               /\ jobs'[j].notes = <<"UserLimitExceeded">>]_vars

(* C4 amended: as C4, but the rejection reads QueueFull when the queue is  *)
(* also at MAX_QUEUE_SIZE and UserLimitExceeded otherwise.                 *)
C4_UserCap ==
    /\ [](\A u \in QueuedUsers : QueuedCount(u) <= USER_QUEUE_CAP)
    /\ [][\A j \in Jobs :
            (/\ SubmittedJob(j)
             /\ jobs'[j].admitUser # 0
             /\ QueuedCount(jobs'[j].admitUser) >= USER_QUEUE_CAP)
            => /\ gifQueue' = gifQueue
               /\ jobs'[j].phase = "rejected"
               /\ jobs'[j].notes =
                      IF Len(gifQueue) >= MAX_QUEUE_SIZE
                      THEN <<"QueueFull">> ELSE <<"UserLimitExceeded">>]_vars

C4_Witness ==
    \E j \in Jobs :
        /\ jobs[j].notes = <<"UserLimitExceeded">>
        /\ QueuedCount(jobs[j].admitUser) = USER_QUEUE_CAP
        /\ Len(gifQueue) < MAX_QUEUE_SIZE

(* Interactions of caller u that passed the rate check within the         *)
(* WINDOW_MS ending at time t.                                             *)
PassedWithin(u, t) ==
    {k \in DOMAIN reqs[u] :
        /\ reqs[u][k].pc # "RateLimited"
        /\ reqs[u][k].at > t - WINDOW_MS
        /\ reqs[u][k].at <= t}

(* C5: of one caller's submissions within any WINDOW_MS, at most           *)
(* MAX_USER_REQUESTS_PER_MINUTE pass the rate check.                       *)
C5_AtMostThreePass ==
    \A u \in Users : \A i \in DOMAIN reqs[u] :
        Cardinality(PassedWithin(u, reqs[u][i].at)) <= MAX_USER_REQUESTS_PER_MINUTE

(* Recorded timestamps of caller u inside the trailing window.             *)
InWindow(u) ==
    {i \in DOMAIN userRequestTimes[u] : userRequestTimes[u][i] > now - WINDOW_MS}

(* C6: isRateLimited(caller) is true iff at least                          *)
(* MAX_USER_REQUESTS_PER_MINUTE recorded timestamps t of the caller        *)
(* satisfy t > now - 60000.                                                *)
C6_RateLimitedIff ==
    \A u \in Users :
        isRateLimited(userRequestTimes[u], now)
            <=> Cardinality(InWindow(u)) >= MAX_USER_REQUESTS_PER_MINUTE

(* C6 witness: a caller is refused at the current instant while one of the *)
(* recorded timestamps has left the window.                                *)
C6_Witness ==
    \E u \in Users :
        /\ isRateLimited(userRequestTimes[u], now)
        /\ \E i \in DOMAIN userRequestTimes[u] :
               userRequestTimes[u][i] <= now - WINDOW_MS
        /\ \E k \in DOMAIN reqs[u] :
               reqs[u][k].pc = "RateLimited" /\ reqs[u][k].at = now

(* C7: getBrowserPage() called while another job holds the page fails at   *)
(* once and creates nothing; called when the pool has a browser and no job *)
(* holds its page, it returns that page.                                   *)
C7_BusyFailsIdleSucceeds ==
    [][\A j \in Jobs : CallsGetBrowserPage(j) =>
          /\ (Holders # {}) =>
                 /\ jobs'[j].rpc = "rejected"
                 /\ jobs'[j].page = 0
                 /\ launched' = launched
          /\ (Holders = {} /\ BROWSER_POOL.browser # 0) =>
                 /\ jobs'[j].rpc = "render"
                 /\ jobs'[j].page = BROWSER_POOL.page]_vars

(* C8: a job calls releaseBrowserPage() only after its own successful      *)
(* getBrowserPage(), and exactly once when generateImage has finished.     *)
C8_ReleaseOncePerAcquire ==
    \A j \in Jobs :
        /\ jobs[j].released <= jobs[j].acquired
        /\ jobs[j].rpc \in {"gif", "reply", "resolved", "rejected"}
               => jobs[j].released = jobs[j].acquired

(* C9: while a dispatched job is awaited its deadline is armed for         *)
(* MAX_PROCESSING_TIME_MS after its start and the clock has not passed it; *)
(* when the deadline fires the clock is at that instant and the awaiting   *)
(* caller enters its catch block; when the failure reply returns the       *)
(* caller has the failure message and the job is done, its slot given      *)
(* back; and every dispatched job whose render never resolves eventually   *)
(* is done with the failure message sent.                                  *)
C9_DeadlineReported ==
    /\ [](\A j \in AllJobs : jobs[j].phase = "waiting" =>
              /\ jobs[j].timer = jobs[j].startedAt + MAX_PROCESSING_TIME_MS
              /\ now <= jobs[j].timer)
    /\ [][\A j \in AllJobs : (~jobs[j].timedOut /\ jobs'[j].timedOut) =>
              /\ jobs[j].phase = "waiting"
              /\ now' = jobs[j].startedAt + MAX_PROCESSING_TIME_MS
              /\ jobs'[j].phase = "errReply"]_vars
    /\ [][\A j \in AllJobs :
              (jobs[j].phase = "errReply" /\ jobs'[j].phase # "errReply") =>
              /\ jobs'[j].phase = "done"
              /\ jobs'[j].notes = Append(jobs[j].notes, "failure")
              /\ processingCount' <= processingCount]_vars
    /\ <>[](\A j \in AllJobs : jobs[j].via # "none" =>
                jobs[j].phase = "done" /\ jobs[j].notes = <<"failure">>)

(* C9 witness: a job dispatched from the queue timed out with its render   *)
(* unresolved, and its caller has the failure message.                     *)
C9_Witness ==
    \E j \in Jobs :
        /\ jobs[j].via = "queue"
        /\ jobs[j].timedOut
        /\ jobs[j].phase = "done"
        /\ jobs[j].rpc \in {"prep", "init", "render"}
        /\ jobs[j].notes = <<"failure">>

(* C10: a job has at most one terminal notification, and exactly one once  *)
(* it is done or rejected.                                                 *)
C10_ExactlyOneNotification ==
    \A j \in AllJobs :
        /\ Len(jobs[j].notes) <= 1
        /\ jobs[j].phase \in {"done", "rejected"} => Len(jobs[j].notes) = 1

(* C11: on the slow path a submission that finds the queue at              *)
(* MAX_QUEUE_SIZE is rejected with QueueFull, whatever the caller has      *)
(* queued; one that finds room but USER_QUEUE_CAP jobs of its caller is    *)
(* rejected with UserLimitExceeded; any other is accepted and becomes the  *)
(* last item of the queue.                                                 *)
C11_RejectionPrecedence ==
    [][\A j \in Jobs :
        (SubmittedJob(j) /\ jobs'[j].via = "none") =>
            LET u == jobs'[j].admitUser
                full == Len(gifQueue) >= MAX_QUEUE_SIZE
                capped == QueuedCount(u) >= USER_QUEUE_CAP
            IN  /\ full => /\ jobs'[j].phase = "rejected"
                           /\ jobs'[j].notes = <<"QueueFull">>
                           /\ gifQueue' = gifQueue
                /\ (~full /\ capped) =>
                           /\ jobs'[j].phase = "rejected"
                           /\ jobs'[j].notes = <<"UserLimitExceeded">>
                           /\ gifQueue' = gifQueue
                /\ (~full /\ ~capped) =>
                           /\ jobs'[j].phase = "queued"
                           /\ jobs'[j].notes = <<>>
                           /\ Len(gifQueue') = Len(gifQueue) + 1
                           /\ SubSeq(gifQueue', 1, Len(gifQueue)) = gifQueue
                           /\ gifQueue'[Len(gifQueue')].id = j
                           /\ gifQueue'[Len(gifQueue')].userId = u]_vars

(* C11 witness: a caller with USER_QUEUE_CAP jobs queued was told          *)
(* QueueFull by a full queue, and another submission was accepted.         *)
C11_Witness ==
    /\ Len(gifQueue) = MAX_QUEUE_SIZE
    /\ \E j \in Jobs :
           /\ jobs[j].notes = <<"QueueFull">>
           /\ QueuedCount(jobs[j].admitUser) = USER_QUEUE_CAP
    /\ \E k \in Jobs : jobs[k].phase = "queued"

(* C12: a submission is started at once, leaving the queue alone, iff it   *)
(* finds the queue empty and processingCount < MAX_CONCURRENT_PROCESSING;  *)
(* any other goes through addToQueue and is not started.  One that finds   *)
(* MAX_CONCURRENT_PROCESSING jobs running and the queue empty becomes the  *)
(* only queued item and is told position 1.                                *)
C12_FastPathIff ==
    [][\A j \in Jobs : SubmittedJob(j) =>
        LET free == Len(gifQueue) = 0
                    /\ processingCount < MAX_CONCURRENT_PROCESSING
        IN  /\ free <=> jobs'[j].via = "fast"
            /\ free => /\ gifQueue' = gifQueue
                       /\ processingCount' = processingCount + 1
                       /\ jobs'[j].startedAt = now
                       /\ jobs'[j].phase \in {"waiting", "errReply"}
            /\ ~free => /\ jobs'[j].phase \in {"queued", "rejected"}
                        /\ jobs'[j].rpc = "none"
                        /\ jobs'[j].timer = 0
                        /\ processingCount' = processingCount
            /\ (Len(gifQueue) = 0
                /\ processingCount = MAX_CONCURRENT_PROCESSING) =>
                        /\ jobs'[j].phase = "queued"
                        /\ Len(gifQueue') = 1
                        /\ gifQueue'[1].id = j
                        /\ jobs'[j].position = 1]_vars

(* C12 witness: with MAX_CONCURRENT_PROCESSING jobs running, one of them   *)
(* started by the fast path in this run, the only queued job was told      *)
(* position 1 and has not been started.                                    *)
C12_Witness ==
    /\ processingCount = MAX_CONCURRENT_PROCESSING
    /\ \E k \in Jobs : jobs[k].via = "fast" /\ jobs[k].phase = "waiting"
    /\ \E j \in Jobs :
           /\ gifQueue # <<>> /\ gifQueue[1].id = j /\ Len(gifQueue) = 1
           /\ jobs[j].phase = "queued"
           /\ jobs[j].position = 1
           /\ jobs[j].rpc = "none"

(* C13: a getBrowserPage() called when the pool's page has been free for   *)
(* longer than BROWSER_IDLE_TIMEOUT since its release does not return that *)
(* page: the browser is gone by then and the call launches a new one.      *)
C13_IdleEvictedBeforeAcquire ==
    [][\A j \in Jobs :
        (/\ CallsGetBrowserPage(j)
         /\ BROWSER_POOL.browser # 0
         /\ ~BROWSER_POOL.inUse
         /\ now - BROWSER_POOL.lastUsed > BROWSER_IDLE_TIMEOUT)
        => /\ jobs'[j].page # BROWSER_POOL.page
           /\ jobs'[j].rpc = "init"]_vars

(* C15: no job holds a page of a browser on which cleanupBrowser() has     *)
(* called close(), and the pool's browser and page are never cleared while *)
(* inUse is true.                                                          *)
C15_SweepLeavesBusyAlone ==
    /\ [](\A j \in Holders : jobs[j].page \notin closedHandles)
    /\ [][(BROWSER_POOL.browser # 0 /\ BROWSER_POOL'.browser = 0)
              => ~BROWSER_POOL.inUse]_vars

(* Jobs that addToQueue accepted, in this run.  Submissions are numbered   *)
(* in the order handleNewGIFWithGif is called, so among these a smaller    *)
(* number means an earlier admission.                                      *)
Admitted == {j \in Jobs : jobs[j].admitUser # 0 /\ jobs[j].phase # "rejected"}

(* C14: queued jobs are started in the order they were admitted: the queue *)
(* holds them in admission order, a job started from the queue was its     *)
(* head, and an admitted job is never started while one admitted earlier   *)
(* is still queued.                                                        *)
C14_QueueFifo ==
    /\ [](\A i, k \in DOMAIN gifQueue :
              (i < k /\ gifQueue[i].id # 0 /\ gifQueue[k].id # 0)
                  => gifQueue[i].id < gifQueue[k].id)
    /\ [](\A a, b \in Admitted :
              (a < b /\ jobs[b].via = "queue")
                  => /\ jobs[a].via = "queue"
                     /\ jobs[a].startedAt <= jobs[b].startedAt)
    /\ [][\A j \in Jobs :
              (jobs[j].via = "none" /\ jobs'[j].via = "queue")
                  => /\ gifQueue # <<>>
                     /\ Head(gifQueue).id = j
                     /\ gifQueue' = Tail(gifQueue)]_vars

(* C14 witness: two jobs queued one behind the other have both been        *)
(* started from the queue, the later one by a delayed dispatch timer.      *)
C14_Witness ==
    \E a, b \in Admitted :
        /\ a < b
        /\ jobs[a].position = 1 /\ jobs[a].via = "queue"
        /\ jobs[b].position = 2 /\ jobs[b].via = "queue"
        /\ jobs[b].phase = "waiting"

(* C16: no job calls getBrowserPage() while the pool's page is in use, and *)
(* no call ends with the in-use error.                                     *)
C16_NoContention ==
    [][\A j \in Jobs : CallsGetBrowserPage(j) =>
          /\ ~(BROWSER_POOL.browser # 0 /\ BROWSER_POOL.inUse)
          /\ jobs'[j].rpc # "rejected"]_vars

(* Jobs that were started and whose caller has not reached the end of its  *)
(* finally block.                                                          *)
Running == {j \in AllJobs : jobs[j].phase \in {"waiting", "errReply"}}

(* C17: processingCount counts the running jobs: it went up once when each *)
(* of them started and comes down once when its caller finishes, by        *)
(* success, failure or timeout, and a finished job never runs again; so    *)
(* it is 0 when no job is running.                                         *)
C17_CountMatchesRunning ==
    /\ [](processingCount = Cardinality(Running))
    /\ [][\A j \in AllJobs :
              /\ jobs[j].phase \in {"done", "rejected"}
                     => jobs'[j].phase = jobs[j].phase
              /\ (j \in Running /\ jobs'[j].phase \notin {"waiting", "errReply"})
                     => jobs'[j].phase = "done"
              /\ (j \notin Running /\ jobs'[j].phase \in {"waiting", "errReply"})
                     => jobs[j].phase \in {"new", "queued"}]_vars

(* C17 witness: three jobs have finished, one by success, one by a failed  *)
(* render and one by its deadline, and the count is back at 0.             *)
C17_Witness ==
    /\ processingCount = 0
    /\ \E a, b, c \in Jobs :
           /\ jobs[a].phase = "done" /\ jobs[a].notes = <<"success">>
           /\ jobs[b].phase = "done" /\ jobs[b].failed /\ ~jobs[b].timedOut
           /\ jobs[c].phase = "done" /\ jobs[c].timedOut /\ ~jobs[c].failed

(* C18: a job whose deadline has fired while its render holds the pool's   *)
(* page keeps the pool in use: the pool is not released when the deadline  *)
(* fires, and inUse stays true until that render's generateImage finishes. *)
C18_BusyUntilRenderFinishes ==
    /\ [][\A j \in AllJobs :
              (~jobs[j].timedOut /\ jobs'[j].timedOut)
                  => BROWSER_POOL' = BROWSER_POOL]_vars
    /\ [](\A j \in Jobs :
              (jobs[j].timedOut /\ jobs[j].page # 0)
                  => /\ BROWSER_POOL.inUse
                     /\ BROWSER_POOL.page = jobs[j].page)

(* Jobs whose processGif has been called and has neither resolved nor      *)
(* rejected.                                                               *)
Executing ==
    {j \in AllJobs : jobs[j].rpc \in {"prep", "init", "render", "gif", "reply"}}

(* C19: the slot of a timed-out job is given back only after its render    *)
(* has finished, so at most MAX_CONCURRENT_PROCESSING renders execute at   *)
(* any time.                                                               *)
C19_SlotHeldUntilRenderEnds ==
    /\ \A j \in AllJobs :
           (jobs[j].timedOut /\ jobs[j].phase = "done") => j \notin Executing
    /\ Cardinality(Executing) <= MAX_CONCURRENT_PROCESSING

(* C20: a job whose generateImage fails at getBrowserPage() with the       *)
(* in-use error, or before calling it, leaves the pool's browser, page and *)
(* inUse flag as they were; in particular inUse stays true while another   *)
(* job holds the page.                                                     *)
C20_FailureLeavesPool ==
    [][\A j \in Jobs :
          (jobs[j].rpc = "prep" /\ jobs'[j].rpc = "rejected")
              => /\ BROWSER_POOL'.inUse = BROWSER_POOL.inUse
                 /\ BROWSER_POOL'.browser = BROWSER_POOL.browser
                 /\ BROWSER_POOL'.page = BROWSER_POOL.page
                 /\ \A k \in Holders : jobs'[k].page = jobs[k].page]_vars

(* The order of a job's states.                                            *)
PhaseRank(phase) ==
    CASE phase = "new" -> 0
      [] phase = "queued" -> 1
      [] phase = "waiting" -> 2
      [] phase = "errReply" -> 3
      [] phase = "done" -> 4
      [] phase = "rejected" -> 4

(* How the scheduler saw job j end: its deadline fired first, its render   *)
(* rejected first, or its render resolved first.                           *)
Outcome(js, j) ==
    IF js[j].timedOut THEN "TimedOut"
    ELSE IF js[j].notes # <<>> /\ js[j].notes[1] = "failure" THEN "Failed"
    ELSE "Succeeded"

(* Positions of job j in the queue.                                        *)
QueueSlots(j) == {i \in DOMAIN gifQueue : gifQueue[i].id = j}

(* C21: a job's state only moves forward (new, queued, running, ended): it *)
(* is in the queue at most once and only while queued, it is started at    *)
(* most once, and once ended it stays ended with the outcome it had; a     *)
(* failed or timed-out job is never queued or started again.               *)
C21_MonotonicJobState ==
    /\ [](\A j \in Jobs :
              /\ Cardinality(QueueSlots(j)) <= 1
              /\ (jobs[j].phase = "queued") <=> (QueueSlots(j) # {}))
    /\ [][\A j \in AllJobs :
              /\ PhaseRank(jobs'[j].phase) >= PhaseRank(jobs[j].phase)
              /\ jobs[j].via # "none" =>
                     /\ jobs'[j].via = jobs[j].via
                     /\ jobs'[j].startedAt = jobs[j].startedAt
              /\ jobs[j].phase \in {"done", "rejected"} =>
                     /\ jobs'[j].phase = jobs[j].phase
                     /\ jobs[j].phase = "done" =>
                            Outcome(jobs', j) = Outcome(jobs, j)]_vars

(* C21 witness: a job started from the queue ended by failure or timeout,  *)
(* and the job admitted after it is running, started from the queue.       *)
C21_Witness ==
    \E a, b \in Admitted :
        /\ a < b
        /\ jobs[a].via = "queue" /\ jobs[a].phase = "done"
        /\ Outcome(jobs, a) \in {"Failed", "TimedOut"}
        /\ jobs[b].via = "queue" /\ jobs[b].phase = "waiting"
        /\ jobs[b].startedAt >= jobs[a].startedAt

(* Calls of processNextInQueue() that are still to come: the 100 ms timers *)
(* set by a finally block and the position replies being awaited.          *)
PendingDispatch ==
    nextTimers + Cardinality({j \in Jobs : jobs[j].posReply})

Started(j) == jobs[j].via # "none"

Accepted(j) == jobs[j].phase \notin {"new", "rejected"}

(* C23: a job starts only when no job submitted before it is still queued; *)
(* accepted jobs start in the order of their submission, immediate and     *)
(* queued jobs together; a submission that finds a job queued, as during   *)
(* the 100 ms between a completion and the next dispatch attempt, is not   *)
(* started by its own submission.                                          *)
C23_NoOvertaking ==
    /\ [][\A j \in Jobs :
              (~Started(j) /\ jobs'[j].via # "none")
                  => /\ \A k \in Jobs :
                            k < j => /\ jobs[k].phase # "queued"
                                     /\ (Accepted(k) => Started(k))
                     /\ \A k \in Jobs : k > j => ~Started(k)]_vars
    /\ [][\A j \in Jobs :
              (SubmittedJob(j) /\ gifQueue # <<>>)
                  => /\ jobs'[j].via = "none"
                     /\ jobs'[j].phase = "queued"
                         => gifQueue' = Append(gifQueue, gifQueue'[Len(gifQueue')])]_vars

(* C23 witness: job a was started from the queue and has ended; none of   *)
(* the 100 ms timers has fired yet, so the timer of a's completion is      *)
(* pending; the later job b was submitted in that interval, found the      *)
(* queue empty and was started at once, after a.                           *)
C23_Witness ==
    \E a, b \in Jobs :
        /\ a < b
        /\ jobs[a].via = "queue" /\ jobs[a].phase = "done"
        /\ jobs[b].via = "fast" /\ jobs[b].startedAt >= jobs[a].startedAt
        /\ Cardinality({j \in Jobs : jobs[j].phase = "done"}) = 1
        /\ nextTimers = Cardinality({j \in AllJobs : jobs[j].phase = "done"
                                                     /\ jobs[j].via = "queue"})

====
